---- MODULE Spec2Model ----
(***************************************************************************)
(* LofarCtl: Observation / Beam / Beamlet / Receiver.                      *)
(*                                                                         *)
(* Frequencies are exact rationals, counted in units of 10/512 MHz, so     *)
(* that the subband width (clock/1024 MHz) is 10 units for the 200 MHz     *)
(* clock and 8 units for the 160 MHz clock, and every band and passband    *)
(* limit is a whole number of units.                                       *)
(* An angle a + b*pi/180 is the pair <<a, b>>: ra*numpy.pi/180 is exact.   *)
(* A control string is the sequence of its option fields.                  *)
(* The code is Python 2: int/int is floor division.                        *)
(***************************************************************************)
EXTENDS Integers, Sequences, FiniteSets, TLC

VARIABLES
    antennaset,   \* Observation._antennaset
    rcumode,      \* Observation._rcumode
    bids,         \* Observation._bids, in allocation order
    beams,        \* Observation._beams
    nbeams,       \* Observation._nbeams
    nbeamlets,    \* Observation._nbeamlets
    call,         \* the last call on the Observation: arguments and outcome
    pre,          \* the Observation's fields when that call started
    ncalls,       \* number of calls made so far
    beam,         \* result of the last direct Beam(...) construction
    beamlet,      \* result of the last direct BeamletLBA/BeamletHBA(...) construction
    receiver,     \* a Receiver(rcumode) and the conversions made on it
    callers       \* the position of each concurrent caller of Add_beam

vars == <<antennaset, rcumode, bids, beams, nbeams, nbeamlets, call, pre, ncalls, beam, beamlet,
          receiver, callers>>

obsvars == <<antennaset, rcumode, bids, beams, nbeams, nbeamlets, call, pre, ncalls>>

----------------------------------------------------------------------------
(* Bounds of the model *)

MaxCalls == 3

MaxLen == 3

----------------------------------------------------------------------------
(* Helpers over sequences and sets *)

Range(s) == {s[i] : i \in DOMAIN s}

Window(a, n) == [i \in 1..n |-> a + i - 1]

SetMin(S) == CHOOSE x \in S : \A y \in S : x <= y

SetMax(S) == 0 - SetMin({0 - x : x \in S})

----------------------------------------------------------------------------
(* config/config.py *)

config_antennaset == {"HBA_JOINED", "HBA_DUAL", "LBA_INNER"}

config_rcumode == 0..7

config_coordsys == {"AZELGEO", "J2000"}

\* str.upper() on the strings the model passes around
str_upper(s) ==
    CASE s = "hba_dual" -> "HBA_DUAL"
      [] s = "lba_inner" -> "LBA_INNER"
      [] s = "center" -> "CENTER"
      [] s = "lower" -> "LOWER"
      [] s = "upper" -> "UPPER"
      [] s = "Lower" -> "LOWER"
      [] OTHER -> s

\* str.lower() on the strings the model passes around
str_lower(s) ==
    CASE s = "LOWER" -> "lower"
      [] s = "Lower" -> "lower"
      [] s = "UPPER" -> "upper"
      [] s = "CENTER" -> "center"
      [] s = "HBA_DUAL" -> "hba_dual"
      [] s = "LBA_INNER" -> "lba_inner"
      [] OTHER -> s

\* s.find('HBA') >= 0, case-sensitive
find_HBA(s) == s \in {"HBA_JOINED", "HBA_DUAL", "HBA_ZERO"}

\* s.find('LBA') >= 0, case-sensitive
find_LBA(s) == s \in {"LBA_INNER", "LBA_OUTER"}

----------------------------------------------------------------------------
(* Receiver.py *)

\* x MHz in units of 10/512 MHz (x a multiple of 5)
MHz(x) == (x * 512) \div 10

Receiver_clock(mode) == IF mode = 6 THEN 160 ELSE 200

Receiver_width(mode) == MHz(Receiver_clock(mode)) \div 1024

Receiver_band(mode) ==
    CASE mode = 0 -> <<MHz(0), MHz(0)>>
      [] mode = 1 -> <<MHz(0), MHz(100)>>
      [] mode = 2 -> <<MHz(0), MHz(100)>>
      [] mode = 3 -> <<MHz(0), MHz(100)>>
      [] mode = 4 -> <<MHz(0), MHz(100)>>
      [] mode = 5 -> <<MHz(100), MHz(200)>>
      [] mode = 6 -> <<MHz(160), MHz(240)>>
      [] mode = 7 -> <<MHz(200), MHz(300)>>

Receiver_passband(mode) ==
    CASE mode = 0 -> <<MHz(0), MHz(0)>>
      [] mode = 1 -> <<MHz(10), MHz(90)>>
      [] mode = 2 -> <<MHz(30), MHz(80)>>
      [] mode = 3 -> <<MHz(10), MHz(80)>>
      [] mode = 4 -> <<MHz(30), MHz(80)>>
      [] mode = 5 -> <<MHz(110), MHz(190)>>
      [] mode = 6 -> <<MHz(170), MHz(230)>>
      [] mode = 7 -> <<MHz(210), MHz(270)>>

Receiver_direction(mode) == 1

\* numpy clip(0, 511)
clip(x) == IF x < 0 THEN 0 ELSE IF x > 511 THEN 511 ELSE x

\* numpy.round(p/q) for q > 0: nearest integer, ties to the even one
round_div(p, q) ==
    LET f == p \div q
        r == p % q
    IN  IF 2 * r < q THEN f
        ELSE IF 2 * r > q THEN f + 1
        ELSE IF f % 2 = 0 THEN f ELSE f + 1

Frequency_from_subband(mode, subband) ==
    clip(subband) * Receiver_width(mode) * Receiver_direction(mode) + Receiver_band(mode)[1]

\* Mutant of Subband_from_frequency: the offset is taken from the top of the band
Subband_from_frequency_upper(mode, frequency) ==
    clip(round_div(Receiver_direction(mode) * (frequency - Receiver_band(mode)[2]),
                   Receiver_width(mode)))

Subband_from_frequency(mode, frequency) ==
    clip(round_div(Receiver_direction(mode) * (frequency - Receiver_band(mode)[1]),
                   Receiver_width(mode)))

Check_subband(mode, subband) ==
    LET frequency == [i \in DOMAIN subband |-> Frequency_from_subband(mode, subband[i])]
        below == \E i \in DOMAIN frequency : frequency[i] < Receiver_passband(mode)[1]
        above == \E i \in DOMAIN frequency : frequency[i] > Receiver_passband(mode)[2]
    IN  ~below /\ ~above

----------------------------------------------------------------------------
(* Beamlet.py *)

\* The outcome of a constructor: the object, or the exception it raised
Ok(obj) == [ok |-> TRUE, obj |-> obj, err |-> ""]

Raise(err) == [ok |-> FALSE, obj |-> <<>>, err |-> err]

\* A scalar bid/subband, or the two-element array of a merged beam
Scalar(x) == [isarray |-> FALSE, v |-> <<x>>]

Array(s) == [isarray |-> TRUE, v |-> s]

\* Mutant of Beamlet_compatible: the LBA branch accepts the HBA modes as well
Beamlet_compatible_anymode(aset, mode) ==
    \/ find_HBA(aset) /\ mode \in {5, 6, 7}
    \/ find_LBA(aset) /\ mode \in {3, 4, 5, 6, 7}

\* The check that antenna set and receiver mode are compatible
Beamlet_compatible(aset, mode) ==
    \/ find_HBA(aset) /\ mode \in {5, 6, 7}
    \/ find_LBA(aset) /\ mode \in {3, 4}

\* _Beamlet.__init__: the validated fields, or the error raised
Beamlet_init(bid, subband, ra, dec, aset, mode, csys) ==
    IF str_upper(aset) \notin config_antennaset THEN Raise("antennaset")
    ELSE IF mode \notin config_rcumode THEN Raise("rcumode")
    ELSE IF csys \notin config_coordsys THEN Raise("coordsys")
    ELSE IF ~Beamlet_compatible(str_upper(aset), mode) THEN Raise("incompatible")
    ELSE Ok([bid |-> bid, subband |-> subband, ra |-> ra, dec |-> dec,
             antennaset |-> str_upper(aset), rcumode |-> mode, coordsys |-> csys])

BeamletLBA(bid, subband, ra, dec, aset, mode, csys) ==
    LET base == Beamlet_init(bid, subband, ra, dec, aset, mode, csys)
    IN  IF ~base.ok THEN base
        ELSE Ok([cls |-> "BeamletLBA", f |-> base.obj, ana |-> <<>>])

BeamletHBA(anara, anadec, bid, subband, ra, dec, aset, mode, csys) ==
    LET base == Beamlet_init(bid, subband, ra, dec, aset, mode, csys)
    IN  IF ~base.ok THEN base
        ELSE Ok([cls |-> "BeamletHBA", f |-> base.obj, ana |-> <<anara, anadec>>])

Opt(name, val) == [name |-> name, val |-> val]

\* Mutant of Beamlet_options_base: bid and subband change places in the format call
Beamlet_options_swapped(b) ==
    IF b.f.bid.isarray
    THEN << Opt("antennaset", <<b.f.antennaset>>), Opt("rcus", <<0, 191>>),
            Opt("rcumode", <<b.f.rcumode>>),
            Opt("subbands", <<b.f.bid.v[1], b.f.bid.v[2]>>),
            Opt("beamlets", <<b.f.subband.v[1], b.f.subband.v[2]>>),
            Opt("digdir", <<b.f.ra, b.f.dec, b.f.coordsys>>) >>
    ELSE << Opt("antennaset", <<b.f.antennaset>>), Opt("rcus", <<0, 191>>),
            Opt("rcumode", <<b.f.rcumode>>),
            Opt("subbands", <<b.f.bid.v[1]>>),
            Opt("beamlets", <<b.f.subband.v[1]>>),
            Opt("digdir", <<b.f.ra, b.f.dec, b.f.coordsys>>) >>

\* _Beamlet._Beamlet_options: the option fields, in the order they are formatted
Beamlet_options_base(b) ==
    IF b.f.bid.isarray
    THEN << Opt("antennaset", <<b.f.antennaset>>), Opt("rcus", <<0, 191>>),
            Opt("rcumode", <<b.f.rcumode>>),
            Opt("subbands", <<b.f.subband.v[1], b.f.subband.v[2]>>),
            Opt("beamlets", <<b.f.bid.v[1], b.f.bid.v[2]>>),
            Opt("digdir", <<b.f.ra, b.f.dec, b.f.coordsys>>) >>
    ELSE << Opt("antennaset", <<b.f.antennaset>>), Opt("rcus", <<0, 191>>),
            Opt("rcumode", <<b.f.rcumode>>),
            Opt("subbands", <<b.f.subband.v[1]>>),
            Opt("beamlets", <<b.f.bid.v[1]>>),
            Opt("digdir", <<b.f.ra, b.f.dec, b.f.coordsys>>) >>

\* _Beamlet_options as dispatched on the class: BeamletHBA appends --anadir
Beamlet_options(b) ==
    IF b.cls = "BeamletHBA"
    THEN Append(Beamlet_options_base(b), Opt("anadir", <<b.ana[1], b.ana[2], b.f.coordsys>>))
    ELSE Beamlet_options_base(b)

\* _Beamlet.beamletctl: "beamctl " + options + " &"
beamletctl(b) == [cmd |-> "beamctl", opts |-> Beamlet_options(b), amp |-> "&"]

----------------------------------------------------------------------------
(* Beam.py *)

\* Mutant of Beam_contiguous: a single beamlet counts as a run
Beam_contiguous_single(bids_, subbands) ==
    /\ Len(subbands) >= 1
    /\ \A i \in 1..(Len(bids_) - 1) : bids_[i + 1] - bids_[i] = 1
    /\ \A i \in 1..(Len(subbands) - 1) : subbands[i + 1] - subbands[i] = 1

\* Mutant of Beam_contiguous: only the IDs are tested
Beam_contiguous_bids_only(bids_, subbands) ==
    /\ Len(subbands) > 1
    /\ \A i \in 1..(Len(bids_) - 1) : bids_[i + 1] - bids_[i] = 1

\* The test of Beam.__init__ that sets _contiguous
Beam_contiguous(bids_, subbands) ==
    /\ Len(subbands) > 1
    /\ \A i \in 1..(Len(bids_) - 1) : bids_[i + 1] - bids_[i] = 1
    /\ \A i \in 1..(Len(subbands) - 1) : subbands[i + 1] - subbands[i] = 1

\* Beam._lofar_HBA
Beam_lofar_HBA(aset) == IF find_HBA(aset) THEN 1 ELSE 1

\* The two-element fancy index [[0,-1]]
FirstLast(s) == Array(<<s[1], s[Len(s)]>>)

\* Beam._Make_beam: the constructor result of every beamlet, in order
Make_beam(contiguous, lofar_HBA, bids_, subbands, ra, dec, aset, mode, csys) ==
    IF contiguous
    THEN IF lofar_HBA = 1
         THEN << BeamletHBA(ra, dec, FirstLast(bids_), FirstLast(subbands), ra, dec, aset, mode, csys) >>
         ELSE << BeamletLBA(FirstLast(bids_), FirstLast(subbands), ra, dec, aset, mode, csys) >>
    ELSE [i \in 1..(IF Len(bids_) < Len(subbands) THEN Len(bids_) ELSE Len(subbands)) |->
            IF lofar_HBA = 1
            THEN BeamletHBA(ra, dec, Scalar(bids_[i]), Scalar(subbands[i]), ra, dec, aset, mode, csys)
            ELSE BeamletLBA(Scalar(bids_[i]), Scalar(subbands[i]), ra, dec, aset, mode, csys)]

\* Beam.__init__: the Beam, or the exception raised
Beam_init(bids_, subbands, ra, dec, aset, mode, csys) ==
    IF Len(subbands) = 0 THEN Raise("empty")
    ELSE IF SetMin(Range(subbands)) < 0 \/ SetMax(Range(subbands)) > 511 THEN Raise("range")
    ELSE IF Len(bids_) # Len(subbands) THEN Raise("length")
    ELSE LET contiguous == Beam_contiguous(bids_, subbands)
             up == str_upper(aset)
             hba == Beam_lofar_HBA(up)
             made == Make_beam(contiguous, hba, bids_, subbands, ra, dec, up, mode, csys)
         IN  IF ~made[1].ok THEN made[1]
             ELSE Ok([bids |-> bids_, subbands |-> subbands, nbeamlets |-> Len(subbands),
                      contiguous |-> contiguous,
                      beamlets |-> [i \in DOMAIN made |-> made[i].obj],
                      ra |-> ra, dec |-> dec, antennaset |-> up, rcumode |-> mode,
                      coordsys |-> csys, lofar_HBA |-> hba])

\* Beam.beamctl: the beamlets' control strings, one per line
beamctl(b) == [i \in DOMAIN b.beamlets |-> beamletctl(b.beamlets[i])]

----------------------------------------------------------------------------
(* Observation.py *)

max_beamlets == 244

\* ra*numpy.pi/180 of an angle given in degrees
deg2rad(x) == <<0, x>>

rad(x) == <<x, 0>>

\* Mutant of setdiff1d: the allocated IDs are not removed
setdiff1d_all(bids_) == Window(0, max_beamlets)

\* setdiff1d(arange(max_beamlets), bids, assume_unique=True)
setdiff1d(bids_) ==
    LET in1d == Range(bids_)
    IN  SelectSeq(Window(0, max_beamlets), LAMBDA x : x \notin in1d)

\* Mutant of Bid_manager: the IDs handed out are not recorded in the pool
Bid_manager_unrecorded(bids_, nbids) ==
    LET free == setdiff1d(bids_)
        new_bids == SubSeq(free, 1, IF nbids < Len(free) THEN nbids ELSE Len(free))
    IN  IF Len(new_bids) # nbids
        THEN [ok |-> FALSE, bids |-> bids_, new_bids |-> <<>>]
        ELSE [ok |-> TRUE, bids |-> bids_, new_bids |-> new_bids]

\* Mutant of Bid_manager: the pool is enlarged before the size test
Bid_manager_partial(bids_, nbids) ==
    LET free == setdiff1d(bids_)
        new_bids == SubSeq(free, 1, IF nbids < Len(free) THEN nbids ELSE Len(free))
    IN  IF Len(new_bids) # nbids
        THEN [ok |-> FALSE, bids |-> bids_ \o new_bids, new_bids |-> <<>>]
        ELSE [ok |-> TRUE, bids |-> bids_ \o new_bids, new_bids |-> new_bids]

\* Mutant of Bid_manager: the IDs are taken from the top of the free ones
Bid_manager_highest(bids_, nbids) ==
    LET free == setdiff1d(bids_)
        new_bids == SubSeq(free, IF nbids < Len(free) THEN Len(free) - nbids + 1 ELSE 1,
                           Len(free))
    IN  IF Len(new_bids) # nbids
        THEN [ok |-> FALSE, bids |-> bids_, new_bids |-> <<>>]
        ELSE [ok |-> TRUE, bids |-> bids_ \o new_bids, new_bids |-> new_bids]

\* Observation._Bid_manager: the new pool and the IDs returned, or RuntimeError
Bid_manager(bids_, nbids) ==
    LET free == setdiff1d(bids_)
        new_bids == SubSeq(free, 1, IF nbids < Len(free) THEN nbids ELSE Len(free))
    IN  IF Len(new_bids) # nbids
        THEN [ok |-> FALSE, bids |-> bids_, new_bids |-> <<>>]
        ELSE [ok |-> TRUE, bids |-> bids_ \o new_bids, new_bids |-> new_bids]

\* The fields of the Observation that a call may change
Obs == [bids |-> bids, beams |-> beams, nbeams |-> nbeams, nbeamlets |-> nbeamlets]

\* Mutant of Add_beam_body: subbands outside the passband are refused
Add_beam_body_blocking(o, aset, mode, subbands, ra, dec, csys, inradians) ==
    LET valid_passband == Check_subband(mode, subbands)
        ra_ == IF inradians THEN rad(ra) ELSE deg2rad(ra)
        dec_ == IF inradians THEN rad(dec) ELSE deg2rad(dec)
        alloc == Bid_manager(o.bids, Len(subbands))
    IN  IF ~alloc.ok
        THEN [obs |-> [o EXCEPT !.bids = alloc.bids], outcome |-> "exhausted",
              new_bids |-> <<>>, err |-> "RuntimeError",
              valid_passband |-> valid_passband]
        ELSE LET b == Beam_init(alloc.new_bids, subbands, ra_, dec_, aset, mode, csys)
             IN  IF b.ok /\ valid_passband
                 THEN [obs |-> [bids |-> alloc.bids, beams |-> Append(o.beams, b.obj),
                                nbeams |-> o.nbeams + 1, nbeamlets |-> Len(alloc.bids)],
                       outcome |-> "added", new_bids |-> alloc.new_bids, err |-> "",
                       valid_passband |-> valid_passband]
                 ELSE [obs |-> [bids |-> alloc.bids, beams |-> o.beams,
                                nbeams |-> o.nbeams, nbeamlets |-> o.nbeamlets],
                       outcome |-> "invalid", new_bids |-> alloc.new_bids, err |-> b.err,
                       valid_passband |-> valid_passband]

\* Mutant of Add_beam_body: the beam is counted before its construction is tried
Add_beam_body_counting(o, aset, mode, subbands, ra, dec, csys, inradians) ==
    LET valid_passband == Check_subband(mode, subbands)
        ra_ == IF inradians THEN rad(ra) ELSE deg2rad(ra)
        dec_ == IF inradians THEN rad(dec) ELSE deg2rad(dec)
        alloc == Bid_manager(o.bids, Len(subbands))
    IN  IF ~alloc.ok
        THEN [obs |-> [o EXCEPT !.bids = alloc.bids], outcome |-> "exhausted",
              new_bids |-> <<>>, err |-> "RuntimeError",
              valid_passband |-> valid_passband]
        ELSE LET b == Beam_init(alloc.new_bids, subbands, ra_, dec_, aset, mode, csys)
             IN  IF b.ok
                 THEN [obs |-> [bids |-> alloc.bids, beams |-> Append(o.beams, b.obj),
                                nbeams |-> o.nbeams + 1, nbeamlets |-> Len(alloc.bids)],
                       outcome |-> "added", new_bids |-> alloc.new_bids, err |-> "",
                       valid_passband |-> valid_passband]
                 ELSE [obs |-> [bids |-> alloc.bids, beams |-> o.beams,
                                nbeams |-> o.nbeams + 1, nbeamlets |-> o.nbeamlets],
                       outcome |-> "invalid", new_bids |-> alloc.new_bids, err |-> b.err,
                       valid_passband |-> valid_passband]

\* Observation.Add_beam on the Observation o: its fields afterwards and what happened
Add_beam_body(o, aset, mode, subbands, ra, dec, csys, inradians) ==
    LET valid_passband == Check_subband(mode, subbands)
        ra_ == IF inradians THEN rad(ra) ELSE deg2rad(ra)
        dec_ == IF inradians THEN rad(dec) ELSE deg2rad(dec)
        alloc == Bid_manager(o.bids, Len(subbands))
    IN  IF ~alloc.ok
        THEN [obs |-> [o EXCEPT !.bids = alloc.bids], outcome |-> "exhausted",
              new_bids |-> <<>>, err |-> "RuntimeError",
              valid_passband |-> valid_passband]
        ELSE LET b == Beam_init(alloc.new_bids, subbands, ra_, dec_, aset, mode, csys)
             IN  IF b.ok
                 THEN [obs |-> [bids |-> alloc.bids, beams |-> Append(o.beams, b.obj),
                                nbeams |-> o.nbeams + 1, nbeamlets |-> Len(alloc.bids)],
                       outcome |-> "added", new_bids |-> alloc.new_bids, err |-> "",
                       valid_passband |-> valid_passband]
                 ELSE [obs |-> [bids |-> alloc.bids, beams |-> o.beams,
                                nbeams |-> o.nbeams, nbeamlets |-> o.nbeamlets],
                       outcome |-> "invalid", new_bids |-> alloc.new_bids, err |-> b.err,
                       valid_passband |-> valid_passband]

\* A text is the sequence of the lines that its newlines separate; the empty
\* string is one line that holds nothing
EmptyLine == [cmd |-> "", opts |-> <<>>, amp |-> ""]

\* "\n".join(texts): the lines of every text in order, the empty string for no text
join(texts) ==
    LET F[i \in 0..Len(texts)] == IF i = 0 THEN <<>> ELSE F[i - 1] \o texts[i]
    IN  IF Len(texts) = 0 THEN <<EmptyLine>> ELSE F[Len(texts)]

\* Mutant of obsctl: the beams are joined last to first
obsctl_reversed(beams_) ==
    join([i \in DOMAIN beams_ |-> beamctl(beams_[Len(beams_) + 1 - i])]) \o <<EmptyLine>>

\* Observation.obsctl: the beamctl of every beam joined by newlines, then a newline
obsctl(beams_) ==
    join([i \in DOMAIN beams_ |-> beamctl(beams_[i])]) \o <<EmptyLine>>

\* numpy.arange(a, b)
arange(a, b) == IF b > a THEN Window(a, b - a) ELSE <<>>

\* Mutant of Frequency_window: half is rounded up
Frequency_window_ceil(subband0, nsubbands, position) ==
    IF str_lower(position) = "lower"
    THEN arange(subband0, subband0 + nsubbands)
    ELSE IF str_upper(position) = "upper"
    THEN arange(subband0 - nsubbands + 1, subband0 + 1)
    ELSE LET half == (nsubbands + 1) \div 2
             plusone == nsubbands % 2
         IN  arange(subband0 - half, subband0 + half + plusone)

\* The subbands Add_beam_frequency builds around subband0, before the range test
Frequency_window(subband0, nsubbands, position) ==
    IF str_lower(position) = "lower"
    THEN arange(subband0, subband0 + nsubbands)
    ELSE IF str_upper(position) = "upper"
    THEN arange(subband0 - nsubbands + 1, subband0 + 1)
    ELSE LET half == nsubbands \div 2
             plusone == nsubbands % 2
         IN  arange(subband0 - half, subband0 + half + plusone)

\* Shift_window with the upper edge taken as 512
Shift_window_512(subbands) ==
    LET sub_min == SetMin(Range(subbands))
        sub_max == SetMax(Range(subbands))
    IN  IF sub_min < 0 THEN [i \in DOMAIN subbands |-> subbands[i] - sub_min]
        ELSE IF sub_max > 511 THEN [i \in DOMAIN subbands |-> subbands[i] - (sub_max - 512)]
        ELSE subbands

\* The range test of Add_beam_frequency: shift the subbands to fit in 0..511
Shift_window(subbands) ==
    LET sub_min == SetMin(Range(subbands))
        sub_max == SetMax(Range(subbands))
    IN  IF sub_min < 0 THEN [i \in DOMAIN subbands |-> subbands[i] - sub_min]
        ELSE IF sub_max > 511 THEN [i \in DOMAIN subbands |-> subbands[i] - (sub_max - 511)]
        ELSE subbands

----------------------------------------------------------------------------
(* The calls made on an Observation *)

\* Observation(antennaset, rcumode): Receiver(rcumode) raises outside 0..7
Observations ==
    { <<"HBA_DUAL", 5>>, <<"LBA_INNER", 3>>, <<"LBA_INNER", 5>> }

Pointing(ra, dec, csys, inradians) ==
    [ra |-> ra, dec |-> dec, coordsys |-> csys, inradians |-> inradians]

DefaultPointing == Pointing(1, 2, "J2000", TRUE)

SubbandLists ==
    { Window(100, MaxLen), <<100, 101, 103>>, <<7>>,
      <<600>>, <<>>, Window(0, max_beamlets - 1) }

\* Arguments of Add_beam
BeamRequests ==
    { [subbands |-> sb, at |-> DefaultPointing] : sb \in SubbandLists }
    \cup { [subbands |-> <<200, 201>>, at |-> Pointing(45, 60, "AZELGEO", FALSE)],
           [subbands |-> <<300>>, at |-> Pointing(1, 2, "GALACTIC", TRUE)] }

\* Arguments of Add_beam_frequency
FrequencyRequests ==
    { [frequency |-> MHz(150), nsubbands |-> MaxLen, position |-> p] : p \in {"lower", "upper"} }
    \cup { [frequency |-> MHz(100) + 15, nsubbands |-> MaxLen, position |-> "upper"],
           [frequency |-> MHz(55), nsubbands |-> MaxLen, position |-> "Lower"] }
    \cup { [frequency |-> f, nsubbands |-> 10, position |-> "center"] :
             f \in {MHz(150), MHz(100) + 15} }
    \cup { [frequency |-> MHz(55), nsubbands |-> 512, position |-> "center"] }
    \cup { [frequency |-> MHz(150), nsubbands |-> n, position |-> "center"] :
             n \in {0, 1, 2, MaxLen} }

NoCall ==
    [op |-> "init", subbands |-> <<>>, at |-> DefaultPointing, frequency |-> 0,
     nsubbands |-> 0, position |-> "", subband0 |-> 0, outcome |-> "none",
     new_bids |-> <<>>, err |-> "", valid_passband |-> TRUE,
     prev |-> [outcome |-> "none", free |-> max_beamlets]]

\* What a call remembers of the call before it: its outcome and the free IDs it found
Previous == [outcome |-> call.outcome, free |-> max_beamlets - Len(pre.bids)]

Idle == [done |-> FALSE]

InitObs ==
    /\ \E o \in Observations : antennaset = o[1] /\ rcumode = o[2]
    /\ bids = <<>>
    /\ beams = <<>>
    /\ nbeams = 0
    /\ nbeamlets = 0
    /\ call = NoCall
    /\ pre = [bids |-> <<>>, beams |-> <<>>, nbeams |-> 0, nbeamlets |-> 0]
    /\ ncalls = 0
    /\ beam = Idle
    /\ beamlet = Idle
    /\ receiver = Idle
    /\ callers = <<>>

\* A call of Add_beam(subbands, ra, dec, coordsys, inradians)
Add_beam ==
    /\ ncalls < MaxCalls
    /\ \E q \in BeamRequests :
         \E r \in {Add_beam_body(Obs, antennaset, rcumode, q.subbands,
                                q.at.ra, q.at.dec, q.at.coordsys, q.at.inradians)} :
             /\ bids' = r.obs.bids
             /\ beams' = r.obs.beams
             /\ nbeams' = r.obs.nbeams
             /\ nbeamlets' = r.obs.nbeamlets
             /\ call' = [NoCall EXCEPT !.op = "Add_beam", !.subbands = q.subbands,
                            !.at = q.at, !.nsubbands = Len(q.subbands),
                            !.outcome = r.outcome, !.new_bids = r.new_bids,
                            !.err = r.err, !.valid_passband = r.valid_passband,
                            !.prev = Previous]
    /\ pre' = Obs
    /\ ncalls' = ncalls + 1
    /\ UNCHANGED <<antennaset, rcumode, beam, beamlet, receiver, callers>>

\* A call of Add_beam_frequency(frequency, nsubbands, ra, dec, position=position)
Add_beam_frequency ==
    /\ ncalls < MaxCalls
    /\ \E q \in FrequencyRequests :
         LET subband0 == Subband_from_frequency(rcumode, q.frequency)
             window == Frequency_window(subband0, q.nsubbands, q.position)
             c == [NoCall EXCEPT !.op = "Add_beam_frequency", !.frequency = q.frequency,
                      !.nsubbands = q.nsubbands, !.position = q.position,
                      !.subband0 = subband0, !.prev = Previous]
         IN  IF Len(window) = 0
             THEN \* subbands.min() of an empty array raises ValueError to the caller
                  /\ call' = [c EXCEPT !.outcome = "raised", !.err = "ValueError"]
                  /\ UNCHANGED <<bids, beams, nbeams, nbeamlets>>
             ELSE LET subbands == Shift_window(window)
                  IN \E r \in {Add_beam_body(Obs, antennaset, rcumode, subbands,
                                         DefaultPointing.ra, DefaultPointing.dec,
                                         DefaultPointing.coordsys, DefaultPointing.inradians)} :
                      /\ bids' = r.obs.bids
                      /\ beams' = r.obs.beams
                      /\ nbeams' = r.obs.nbeams
                      /\ nbeamlets' = r.obs.nbeamlets
                      /\ call' = [c EXCEPT !.subbands = subbands, !.outcome = r.outcome,
                                     !.new_bids = r.new_bids, !.err = r.err,
                                     !.valid_passband = r.valid_passband]
    /\ pre' = Obs
    /\ ncalls' = ncalls + 1
    /\ UNCHANGED <<antennaset, rcumode, beam, beamlet, receiver, callers>>

Next == Add_beam \/ Add_beam_frequency

Spec == InitObs /\ [][Next]_vars

----------------------------------------------------------------------------
(* Beams and beamlets constructed directly, outside an Observation *)

SeqsUpTo(S, n) == UNION { [1..k -> S] : k \in 0..n }

BeamBids == SeqsUpTo({5, 6, 7}, MaxLen) \cup { <<5, 6, 8>> }

BeamSubbands == SeqsUpTo({100, 101, 102, 600}, MaxLen) \cup { <<100, 101, 103>> }

BeamConfigs ==
    { <<"HBA_DUAL", 5>>, <<"hba_dual", 5>>, <<"LBA_INNER", 3>>, <<"LBA_INNER", 5>> }

InitBeam ==
    /\ antennaset = "HBA_DUAL" /\ rcumode = 5
    /\ bids = <<>> /\ beams = <<>> /\ nbeams = 0 /\ nbeamlets = 0
    /\ call = NoCall
    /\ pre = [bids |-> <<>>, beams |-> <<>>, nbeams |-> 0, nbeamlets |-> 0]
    /\ ncalls = 0
    /\ beamlet = Idle
    /\ receiver = Idle
    /\ callers = <<>>
    /\ \E b \in BeamBids, sb \in BeamSubbands, c \in BeamConfigs :
         beam = [done |-> FALSE,
                 args |-> [bids |-> b, subbands |-> sb, ra |-> rad(1), dec |-> rad(2),
                           antennaset |-> c[1], rcumode |-> c[2], coordsys |-> "J2000"]]

\* Beam(bids, subbands, ra, dec, antennaset, rcumode, coordsys)
Beam_new ==
    /\ ~beam.done
    /\ \E r \in { Beam_init(beam.args.bids, beam.args.subbands, beam.args.ra, beam.args.dec,
                            beam.args.antennaset, beam.args.rcumode, beam.args.coordsys) } :
         beam' = [done |-> TRUE, args |-> beam.args, res |-> r,
                  beamctl |-> IF r.ok THEN beamctl(r.obj) ELSE <<>>]
    /\ UNCHANGED <<obsvars, beamlet, receiver, callers>>

SpecBeam == InitBeam /\ [][Beam_new]_vars

AntennaNames == { "HBA_JOINED", "HBA_DUAL", "LBA_INNER", "hba_dual", "LBA_OUTER", "HBA_ZERO" }

\* bid and subband are both scalars or both two-element arrays
BeamletSlots ==
    { [bid |-> Scalar(5), subband |-> Scalar(100)],
      [bid |-> Array(<<5, 7>>), subband |-> Array(<<100, 102>>)] }

InitBeamlet ==
    /\ antennaset = "HBA_DUAL" /\ rcumode = 5
    /\ bids = <<>> /\ beams = <<>> /\ nbeams = 0 /\ nbeamlets = 0
    /\ call = NoCall
    /\ pre = [bids |-> <<>>, beams |-> <<>>, nbeams |-> 0, nbeamlets |-> 0]
    /\ ncalls = 0
    /\ beam = Idle
    /\ receiver = Idle
    /\ callers = <<>>
    /\ \E cls \in {"BeamletLBA", "BeamletHBA"}, a \in AntennaNames, m \in -1..8,
          cs \in {"J2000", "AZELGEO", "GALACTIC"}, sl \in BeamletSlots :
         beamlet = [done |-> FALSE,
                    args |-> [cls |-> cls, bid |-> sl.bid, subband |-> sl.subband,
                              ra |-> rad(1), dec |-> rad(2), anara |-> rad(3), anadec |-> rad(4),
                              antennaset |-> a, rcumode |-> m, coordsys |-> cs]]

\* BeamletLBA(bid, subband, ra, dec, ...) or BeamletHBA(anara, anadec, bid, subband, ra, dec, ...)
Beamlet_new ==
    /\ ~beamlet.done
    /\ \E r \in { IF beamlet.args.cls = "BeamletHBA"
                  THEN BeamletHBA(beamlet.args.anara, beamlet.args.anadec, beamlet.args.bid,
                                  beamlet.args.subband, beamlet.args.ra, beamlet.args.dec,
                                  beamlet.args.antennaset, beamlet.args.rcumode,
                                  beamlet.args.coordsys)
                  ELSE BeamletLBA(beamlet.args.bid, beamlet.args.subband, beamlet.args.ra,
                                  beamlet.args.dec, beamlet.args.antennaset,
                                  beamlet.args.rcumode, beamlet.args.coordsys) } :
         beamlet' = [done |-> TRUE, args |-> beamlet.args, res |-> r,
                     beamletctl |-> IF r.ok THEN beamletctl(r.obj) ELSE <<>>]
    /\ UNCHANGED <<obsvars, beam, receiver, callers>>

SpecBeamlet == InitBeamlet /\ [][Beamlet_new]_vars

----------------------------------------------------------------------------
(* A Receiver used on its own: a subband converted to a frequency and back *)

\* Receiver(rcumode) for every mode it accepts, and the subband to convert
InitReceiver ==
    /\ antennaset = "HBA_DUAL" /\ rcumode = 5
    /\ bids = <<>> /\ beams = <<>> /\ nbeams = 0 /\ nbeamlets = 0
    /\ call = NoCall
    /\ pre = [bids |-> <<>>, beams |-> <<>>, nbeams |-> 0, nbeamlets |-> 0]
    /\ ncalls = 0
    /\ beam = Idle
    /\ beamlet = Idle
    /\ callers = <<>>
    /\ \E m \in 0..7, s \in -1..512 :
         receiver = [done |-> FALSE, step |-> 0, mode |-> m, subband |-> s,
                     frequency |-> 0, back |-> 0]

\* frequency = Receiver.Frequency_from_subband(subband)
Receiver_Frequency_from_subband ==
    /\ receiver.step = 0
    /\ receiver' = [receiver EXCEPT
                      !.step = 1,
                      !.frequency = Frequency_from_subband(receiver.mode, receiver.subband)]
    /\ UNCHANGED <<obsvars, beam, beamlet, callers>>

\* back = Receiver.Subband_from_frequency(frequency)
Receiver_Subband_from_frequency ==
    /\ receiver.step = 1
    /\ receiver' = [receiver EXCEPT
                      !.step = 2, !.done = TRUE,
                      !.back = Subband_from_frequency(receiver.mode, receiver.frequency)]
    /\ UNCHANGED <<obsvars, beam, beamlet, callers>>

NextReceiver == Receiver_Frequency_from_subband \/ Receiver_Subband_from_frequency

SpecReceiver == InitReceiver /\ [][NextReceiver]_vars

----------------------------------------------------------------------------
(* Two callers of Add_beam on one Observation.  The Observation holds no lock,
   so the callers interleave between the statements of Add_beam and
   _Bid_manager, and within the statement that reads self._bids and then
   assigns it. *)

Callers == {1, 2}

\* Subbands the concurrent callers ask for
CallerRequests ==
    { <<7>>, Window(100, 2), <<100, 101, 103>>, <<600>>, Window(0, max_beamlets - 1) }

Waiting == [pc |-> "idle", subbands |-> <<>>, new_bids |-> <<>>, loaded |-> <<>>]

\* Observation('HBA_DUAL', 5), shared by the callers
InitCallers ==
    /\ antennaset = "HBA_DUAL" /\ rcumode = 5
    /\ bids = <<>> /\ beams = <<>> /\ nbeams = 0 /\ nbeamlets = 0
    /\ call = NoCall
    /\ pre = [bids |-> <<>>, beams |-> <<>>, nbeams |-> 0, nbeamlets |-> 0]
    /\ ncalls = 0
    /\ beam = Idle
    /\ beamlet = Idle
    /\ receiver = Idle
    /\ callers = [t \in Callers |-> Waiting]

\* Add_beam(subbands, 1, 2) is entered: the passband check, then _Bid_manager is called
Caller_Add_beam(t) ==
    /\ callers[t].pc = "idle"
    /\ \E sb \in CallerRequests :
         callers' = [callers EXCEPT ![t] = [Waiting EXCEPT !.pc = "setdiff1d", !.subbands = sb]]
    /\ UNCHANGED <<obsvars, call, pre, ncalls, beam, beamlet, receiver>>

\* _Bid_manager: new_bids = setdiff1d(arange(244), self._bids)[:nbids], and the
\* size test, which raises RuntimeError back into Add_beam
Caller_setdiff1d(t) ==
    /\ callers[t].pc = "setdiff1d"
    /\ \E free \in {setdiff1d(bids)} :
         LET nbids == Len(callers[t].subbands)
             new_bids == SubSeq(free, 1, IF nbids < Len(free) THEN nbids ELSE Len(free))
         IN  callers' = [callers EXCEPT
                           ![t].pc = IF Len(new_bids) # nbids THEN "exhausted" ELSE "load",
                           ![t].new_bids = IF Len(new_bids) # nbids THEN <<>> ELSE new_bids]
    /\ UNCHANGED <<obsvars, call, pre, ncalls, beam, beamlet, receiver>>

\* _Bid_manager: self._bids is read to build numpy.r_[self._bids, new_bids]
Caller_load_bids(t) ==
    /\ callers[t].pc = "load"
    /\ callers' = [callers EXCEPT ![t].pc = "store", ![t].loaded = bids]
    /\ UNCHANGED <<obsvars, call, pre, ncalls, beam, beamlet, receiver>>

\* _Bid_manager: the array built is assigned to self._bids
Caller_store_bids(t) ==
    /\ callers[t].pc = "store"
    /\ bids' = callers[t].loaded \o callers[t].new_bids
    /\ callers' = [callers EXCEPT ![t].pc = "Beam"]
    /\ UNCHANGED <<antennaset, rcumode, beams, nbeams, nbeamlets,
                   call, pre, ncalls, beam, beamlet, receiver>>

\* Add_beam: Beam(...) is built and appended and the counters are set, or the
\* exception of Beam(...) is printed
Caller_append(t) ==
    /\ callers[t].pc = "Beam"
    /\ \E b \in {Beam_init(callers[t].new_bids, callers[t].subbands, rad(1), rad(2),
                           antennaset, rcumode, "J2000")} :
         IF b.ok
         THEN /\ beams' = Append(beams, b.obj)
              /\ nbeamlets' = Len(bids)
              /\ nbeams' = nbeams + 1
              /\ callers' = [callers EXCEPT ![t].pc = "added"]
         ELSE /\ UNCHANGED <<beams, nbeamlets, nbeams>>
              /\ callers' = [callers EXCEPT ![t].pc = "invalid"]
    /\ UNCHANGED <<antennaset, rcumode, bids, call, pre, ncalls, beam, beamlet, receiver>>

NextCallers ==
    \E t \in Callers :
       \/ Caller_Add_beam(t)
       \/ Caller_setdiff1d(t)
       \/ Caller_load_bids(t)
       \/ Caller_store_bids(t)
       \/ Caller_append(t)

SpecCallers == InitCallers /\ [][NextCallers]_vars

----------------------------------------------------------------------------
(* Properties *)

\* The last call reached _Bid_manager
Allocating == call.outcome \in {"added", "invalid", "exhausted"}

FreeIds(pool) == (0..(max_beamlets - 1)) \ Range(pool)

Ascending(s) == \A i \in 1..(Len(s) - 1) : s[i] < s[i + 1]

\* ids are the n smallest free IDs of pool, ascending, and after is pool plus exactly them
IsAllocation(pool, n, ids, after) ==
    \E free \in {FreeIds(pool)}, got \in {Range(ids)} :
       /\ Len(ids) = n
       /\ Ascending(ids)
       /\ got \subseteq free
       /\ n > 0 => \A x \in free \ got : ids[n] < x
       /\ after = pool \o ids
       /\ Range(after) = Range(pool) \cup got
       /\ Cardinality(Range(after)) = Len(pool) + n

\* Requests tried on every reachable pool, besides the one the last call made
PoolRequests(pool) == {1, max_beamlets - Len(pool)} \cap (0..(max_beamlets - Len(pool)))

\* C1: in every reachable pool state, _Bid_manager(n) with n no larger than the
\* number of free IDs returns exactly the n smallest unallocated integers of
\* [0,244), ascending, distinct and disjoint from the allocated ones, and the
\* allocated set becomes the old set plus exactly those n IDs.
C1_BidManagerSmallestFree ==
    /\ (Allocating /\ Len(call.subbands) <= max_beamlets - Len(pre.bids))
          => IsAllocation(pre.bids, Len(call.subbands), call.new_bids, bids)
    /\ \A n \in PoolRequests(bids) :
          \E r \in {Bid_manager(bids, n)} : r.ok /\ IsAllocation(bids, n, r.new_bids, r.bids)

\* C1 witness: a call that was handed exactly the last free IDs of a non-empty pool
C1_Witness ==
    /\ call.outcome = "added"
    /\ Len(pre.bids) > 0
    /\ Len(call.new_bids) = max_beamlets - Len(pre.bids)

\* C2: an Add_beam asking for more subbands than there are free IDs returns to
\* its caller having changed nothing: pool, beam list, nbeams and nbeamlets are
\* as before the call, however often it is repeated.
C2_ExhaustionChangesNothing ==
    (Allocating /\ Len(call.subbands) > max_beamlets - Len(pre.bids))
       => /\ call.outcome = "exhausted"
          /\ bids = pre.bids
          /\ beams = pre.beams
          /\ nbeams = pre.nbeams
          /\ nbeamlets = pre.nbeamlets

\* C2 witness: a nonzero request refused after all 244 IDs were allocated
C2_Witness ==
    /\ call.outcome = "exhausted"
    /\ Len(call.subbands) > 0
    /\ Len(pre.bids) = max_beamlets

\* C3: an Add_beam that fails validation while the Beam is constructed leaves
\* the Observation unchanged: pool, beam list, nbeams and nbeamlets as before.
C3_FailedValidationChangesNothing ==
    call.outcome = "invalid"
       => /\ bids = pre.bids
          /\ beams = pre.beams
          /\ nbeams = pre.nbeams
          /\ nbeamlets = pre.nbeamlets

AllBeamIds == UNION { Range(beams[i].bids) : i \in DOMAIN beams }

SumLen(bs) == LET F[i \in 0..Len(bs)] == IF i = 0 THEN 0 ELSE F[i - 1] + Len(bs[i].bids)
              IN  F[Len(bs)]

\* C4: after any sequence of Add_beam and Add_beam_frequency calls every beam
\* of the list has as many IDs as subbands, its IDs lie in [0,243], and all IDs
\* are pairwise distinct within a beam and across the beams.
C4_BeamIdsUnique ==
    /\ \A i \in DOMAIN beams :
          /\ Len(beams[i].bids) = Len(beams[i].subbands)
          /\ Range(beams[i].bids) \subseteq 0..243
          /\ Cardinality(Range(beams[i].bids)) = Len(beams[i].bids)
    /\ \A i, j \in DOMAIN beams : i # j => Range(beams[i].bids) \cap Range(beams[j].bids) = {}
    /\ Cardinality(AllBeamIds) = SumLen(beams)

\* C4 witness: two beams or more, the last one added by Add_beam_frequency
C4_Witness ==
    /\ Len(beams) >= 2
    /\ call.op = "Add_beam_frequency"
    /\ call.outcome = "added"
    /\ Len(beams[1].bids) >= 2

\* A directive has the option --name
HasOpt(d, name) == \E i \in DOMAIN d.opts : d.opts[i].name = name

\* The value of a directive's option --name
OptVal(d, name) == d.opts[CHOOSE i \in DOMAIN d.opts : d.opts[i].name = name].val

Step1(s) == \A i \in 1..(Len(s) - 1) : s[i + 1] = s[i] + 1

BeamBuilt == beam.done /\ beam.res.ok

\* C5: a Beam is merged (its _contiguous flag is set) if and only if it has at
\* least 2 beamlets and both its IDs and its subbands ascend in steps of exactly
\* 1; IDs [5,6,8] or subbands [100,101,103] are never merged, nor is a single
\* beamlet.
C5_MergedIffBothContiguous ==
    BeamBuilt =>
       /\ beam.res.obj.contiguous <=>
             (Len(beam.args.subbands) >= 2 /\ Step1(beam.args.bids) /\ Step1(beam.args.subbands))
       /\ beam.args.bids = <<5, 6, 8>> => ~beam.res.obj.contiguous
       /\ beam.args.subbands = <<100, 101, 103>> => ~beam.res.obj.contiguous
       /\ Len(beam.args.subbands) = 1 => ~beam.res.obj.contiguous

\* C5 witness: the beam with ids [5,6,7] and subbands [100,101,102] is merged
C5_Witness ==
    /\ BeamBuilt
    /\ beam.args.bids = <<5, 6, 7>>
    /\ beam.args.subbands = <<100, 101, 102>>
    /\ beam.res.obj.contiguous

\* C6: a merged Beam emits exactly one directive with subbands first:last and
\* beamlets firstId:lastId; a non-merged Beam of n beamlets emits n directives,
\* the i-th with the single pair (ids[i], subbands[i]); every directive carries
\* the beam's (ra, dec), antenna set, rcumode and coordinate system.
C6_Directives ==
    BeamBuilt =>
       LET a == beam.args
           o == beam.res.obj
           ctl == beam.beamctl
           n == Len(a.subbands)
       IN  /\ o.contiguous =>
                /\ Len(ctl) = 1
                /\ OptVal(ctl[1], "subbands") = <<a.subbands[1], a.subbands[n]>>
                /\ OptVal(ctl[1], "beamlets") = <<a.bids[1], a.bids[n]>>
           /\ ~o.contiguous =>
                /\ Len(ctl) = n
                /\ \A i \in 1..n :
                      /\ OptVal(ctl[i], "subbands") = <<a.subbands[i]>>
                      /\ OptVal(ctl[i], "beamlets") = <<a.bids[i]>>
           /\ \A i \in DOMAIN ctl :
                /\ OptVal(ctl[i], "digdir") = <<a.ra, a.dec, a.coordsys>>
                /\ OptVal(ctl[i], "antennaset") = <<o.antennaset>>
                /\ OptVal(ctl[i], "rcumode") = <<a.rcumode>>

\* C6 witness: a non-merged beam of three beamlets
C6_Witness ==
    /\ BeamBuilt
    /\ ~beam.res.obj.contiguous
    /\ Len(beam.beamctl) = 3
    /\ beam.args.bids = <<5, 6, 8>>

\* What a directive configures besides its beamlets and subbands
Pointing_of(d) == SelectSeq(d.opts, LAMBDA o : o.name \notin {"subbands", "beamlets"})

\* The (id, subband, pointing) tuples of a range directive, position by position
Expand(d) ==
    { <<OptVal(d, "beamlets")[1] + k, OptVal(d, "subbands")[1] + k, Pointing_of(d)>> :
         k \in 0..(OptVal(d, "beamlets")[2] - OptVal(d, "beamlets")[1]) }

\* The (id, subband, pointing) tuples of the per-beamlet rendering of a beam's arguments
Unmerged(a, o) ==
    LET made == Make_beam(FALSE, o.lofar_HBA, a.bids, a.subbands, a.ra, a.dec,
                          o.antennaset, a.rcumode, a.coordsys)
    IN  { <<OptVal(beamletctl(made[i].obj), "beamlets")[1],
            OptVal(beamletctl(made[i].obj), "subbands")[1],
            Pointing_of(beamletctl(made[i].obj))>> : i \in DOMAIN made }

\* C7: merging is transparent: expanding the one directive of a merged Beam
\* position by position gives exactly the (id, subband) pairs, with the same
\* pointing, that the per-beamlet rendering of the same ids and subbands gives.
C7_MergeTransparent ==
    (BeamBuilt /\ beam.res.obj.contiguous) =>
       LET d == beam.beamctl[1]
       IN  /\ OptVal(d, "beamlets")[2] - OptVal(d, "beamlets")[1]
                 = OptVal(d, "subbands")[2] - OptVal(d, "subbands")[1]
           /\ Expand(d) = Unmerged(beam.args, beam.res.obj)

\* C7 witness: a merged LBA beam of two beamlets
C7_Witness ==
    /\ BeamBuilt
    /\ beam.res.obj.contiguous
    /\ beam.args.antennaset = "LBA_INNER"
    /\ Len(beam.args.bids) = 2

\* C8: a directive of a beam has the anadir field if and only if the beam's
\* antenna set contains "HBA"; a beam of an LBA_INNER Observation has none.
C8_AnadirIffHBA ==
    \A i \in DOMAIN beams : \A j \in DOMAIN beams[i].beamlets :
       HasOpt(beamctl(beams[i])[j], "anadir") <=> find_HBA(beams[i].antennaset)

BeamletBuilt == beamlet.done

\* The compatibility rule of the claim, on the antenna set name aset
Compatible(aset, mode) ==
    \/ aset \in {"HBA_JOINED", "HBA_DUAL", "HBA_ZERO"} /\ mode \in {5, 6, 7}
    \/ aset \in {"LBA_INNER", "LBA_OUTER"} /\ mode \in {3, 4}

\* C9 as stated: constructing a beamlet succeeds if and only if the antenna set
\* is one of the known sets, rcumode is in 0..7, the coordinate system is known
\* and the antenna set and mode are compatible; otherwise it fails, no beamlet.
C9_ConstructionIffKnown ==
    BeamletBuilt =>
       /\ beamlet.res.ok <=>
             /\ beamlet.args.antennaset \in {"HBA_JOINED", "HBA_DUAL", "LBA_INNER"}
             /\ beamlet.args.rcumode \in 0..7
             /\ beamlet.args.coordsys \in {"AZELGEO", "J2000"}
             /\ Compatible(beamlet.args.antennaset, beamlet.args.rcumode)
       /\ ~beamlet.res.ok => beamlet.res.obj = <<>> /\ beamlet.res.err # ""

\* The upper-case spelling of an antenna set name
UpperName(aset) == IF aset = "hba_dual" THEN "HBA_DUAL" ELSE aset

\* C9 amended: as C9, with the antenna set compared after conversion to upper
\* case: a known set spelled in lower case is accepted.
C9_ConstructionIffKnownUpper ==
    BeamletBuilt =>
       /\ beamlet.res.ok <=>
             /\ UpperName(beamlet.args.antennaset) \in {"HBA_JOINED", "HBA_DUAL", "LBA_INNER"}
             /\ beamlet.args.rcumode \in 0..7
             /\ beamlet.args.coordsys \in {"AZELGEO", "J2000"}
             /\ Compatible(UpperName(beamlet.args.antennaset), beamlet.args.rcumode)
       /\ ~beamlet.res.ok => beamlet.res.obj = <<>> /\ beamlet.res.err # ""
       /\ (beamlet.args.antennaset = "LBA_INNER" /\ beamlet.args.rcumode = 5) => ~beamlet.res.ok
       /\ beamlet.args.rcumode \in {0, 1, 2} => ~beamlet.res.ok

\* C9 witness: LBA_INNER with rcumode 5 is refused as incompatible
C9_Witness ==
    /\ BeamletBuilt
    /\ beamlet.args.antennaset = "LBA_INNER"
    /\ beamlet.args.rcumode = 5
    /\ beamlet.args.coordsys = "J2000"
    /\ ~beamlet.res.ok
    /\ beamlet.res.err = "incompatible"

\* C10: with position 'center', centre subband c and n >= 1 subbands, the
\* unshifted window is the n consecutive subbands c - floor(n/2) .. c + ceil(n/2) - 1,
\* floor(n/2) of them below c and the others at or above c, and the subbands
\* handed to Add_beam are that window unless it would leave [0,511].
C10_CenterWindow ==
    (call.op = "Add_beam_frequency" /\ call.position = "center" /\ call.nsubbands >= 1) =>
       LET c == Subband_from_frequency(rcumode, call.frequency)
           n == call.nsubbands
           lo == c - (n \div 2)
           hi == c + ((n + 1) \div 2) - 1
           W == [i \in 1..n |-> lo + i - 1]
       IN  /\ Len(call.subbands) = n
           /\ Step1(call.subbands)
           /\ W[n] = hi
           /\ Cardinality({i \in 1..n : W[i] < c}) = n \div 2
           /\ Cardinality({i \in 1..n : W[i] >= c}) = n - (n \div 2)
           /\ (lo >= 0 /\ hi <= 511) => call.subbands = W
           /\ call.subbands # W => (lo < 0 \/ hi > 511)

\* C10 witness: ten subbands centred on subband 256, five below and five at or above
C10_Witness ==
    /\ call.op = "Add_beam_frequency"
    /\ call.position = "center"
    /\ call.nsubbands = 10
    /\ call.subband0 = 256
    /\ call.subbands = Window(251, 10)
    /\ call.outcome = "added"

----------------------------------------------------------------------------
(* C11: the 'lower' and 'upper' windows of Add_beam_frequency *)

\* The window handed to Add_beam lies where Add_beam_frequency built it
InBand(w) == \A i \in DOMAIN w : w[i] >= 0 /\ w[i] <= 511

\* C11: with c the subband of the given frequency and n >= 1, Add_beam_frequency
\* with position 'lower' requests exactly the subbands c..c+n-1 and with
\* position 'upper' exactly c-n+1..c, whenever that window lies in [0,511].
C11_LowerUpperWindow ==
    (call.op = "Add_beam_frequency" /\ call.nsubbands >= 1) =>
       LET c == Subband_from_frequency(rcumode, call.frequency)
           n == call.nsubbands
       IN  /\ (str_lower(call.position) = "lower" /\ InBand(Window(c, n)))
                 => call.subbands = Window(c, n)
           /\ (str_lower(call.position) = "upper" /\ InBand(Window(c - n + 1, n)))
                 => call.subbands = Window(c - n + 1, n)

----------------------------------------------------------------------------
(* C12: the window is shifted, never truncated *)

\* C12: for every frequency, position and n in 1..512, the subbands that
\* Add_beam_frequency passes to Add_beam are exactly n consecutive ascending
\* integers inside [0,511]; a window whose unshifted lower bound is -k is moved
\* up by exactly k, one whose unshifted upper bound is 511+k down by exactly k.
C12_ShiftedNotTruncated ==
    (call.op = "Add_beam_frequency" /\ call.nsubbands >= 1 /\ call.nsubbands <= 512) =>
       \E U \in {Frequency_window(Subband_from_frequency(rcumode, call.frequency),
                                  call.nsubbands, call.position)} :
          LET n == call.nsubbands
              got == call.subbands
          IN  /\ Len(U) = n
              /\ Len(got) = n
              /\ Step1(got)
              /\ got[1] >= 0
              /\ got[n] <= 511
              /\ U[1] < 0 => got[1] = U[1] + (0 - U[1]) /\ got[n] = U[n] + (0 - U[1])
              /\ U[n] > 511 => got[1] = U[1] - (U[n] - 511) /\ got[n] = U[n] - (U[n] - 511)
              /\ (U[1] >= 0 /\ U[n] <= 511) => got = U

\* C12 witness: a window of ten whose lower bound is -3 was moved up by 3, one
\* of 512 subbands was moved to cover the whole band
C12_Witness ==
    /\ call.op = "Add_beam_frequency"
    /\ \/ /\ call.nsubbands = 10
          /\ call.subband0 = 2
          /\ call.subbands = Window(0, 10)
       \/ /\ call.nsubbands = 512
          /\ call.subband0 # 256
          /\ call.subbands = Window(0, 512)

----------------------------------------------------------------------------
(* C13: obsctl is the beams' directives in the order the beams were added *)

\* The directives of a text: its lines that are not empty
Directives(text) == SelectSeq(text, LAMBDA line : line # EmptyLine)

\* The directives of the first k beams, beam after beam
DirectivesOfBeams(bs, k) ==
    LET F[i \in 0..k] ==
          IF i = 0 THEN <<>>
          ELSE F[i - 1] \o [j \in DOMAIN bs[i].beamlets |-> beamletctl(bs[i].beamlets[j])]
    IN  F[k]

\* C13: obsctl is the concatenation of the directive text of every beam in the
\* beam list, in the order the beams were successfully added; a beam whose
\* addition failed contributes no directive, and the directives of the earlier
\* beams are unchanged by later additions.
C13_ObsctlInOrder ==
    \E text \in {Directives(obsctl(beams))}, before \in {Directives(obsctl(pre.beams))} :
       /\ text = DirectivesOfBeams(beams, Len(beams))
       /\ call.outcome = "added" =>
             /\ Len(beams) = Len(pre.beams) + 1
             /\ SubSeq(beams, 1, Len(pre.beams)) = pre.beams
             /\ beams[Len(beams)].subbands = call.subbands
             /\ text = before \o beamctl(beams[Len(beams)])
             /\ Len(text) > Len(before)
       /\ call.outcome \in {"invalid", "exhausted", "raised"} => text = before

\* C13 witness: a second beam was added after a first and its directives follow
\* those of the first, or an addition failed after a beam was added
C13_Witness ==
    /\ Len(pre.beams) >= 1
    /\ Len(Directives(obsctl(pre.beams))) >= 1
    /\ \/ /\ call.outcome = "added"
          /\ Len(Directives(obsctl(beams))) >= 2
          /\ beams[1].subbands # beams[Len(beams)].subbands
       \/ /\ call.outcome \in {"invalid", "exhausted"}
          /\ ncalls = 2

----------------------------------------------------------------------------
(* C14: the passband check is advisory *)

\* The request of the last call is one that Beam(...) accepts on this Observation
ValidRequest ==
    /\ Len(call.subbands) >= 1
    /\ InBand(call.subbands)
    /\ call.at.coordsys \in {"AZELGEO", "J2000"}
    /\ Compatible(antennaset, rcumode)

\* Some subband of the last call lies outside the passband of the receiver
OutOfPassband ==
    \E i \in DOMAIN call.subbands :
       \/ Frequency_from_subband(rcumode, call.subbands[i]) < Receiver_passband(rcumode)[1]
       \/ Frequency_from_subband(rcumode, call.subbands[i]) > Receiver_passband(rcumode)[2]

\* C14: Check_subband returns False exactly when at least one supplied subband
\* maps to a frequency below the passband's lower limit or above its upper
\* limit, and Add_beam called with subbands that fail the check (enough free
\* IDs, valid configuration) still allocates IDs and appends the beam exactly
\* as it does for in-passband subbands.
C14_PassbandAdvisory ==
    Allocating =>
       /\ call.valid_passband = ~OutOfPassband
       /\ (ValidRequest /\ Len(call.subbands) <= max_beamlets - Len(pre.bids)) =>
             /\ call.outcome = "added"
             /\ Len(call.new_bids) = Len(call.subbands)
             /\ bids = pre.bids \o call.new_bids
             /\ Len(beams) = Len(pre.beams) + 1
             /\ SubSeq(beams, 1, Len(pre.beams)) = pre.beams
             /\ beams[Len(beams)].subbands = call.subbands
             /\ beams[Len(beams)].bids = call.new_bids
             /\ nbeams = pre.nbeams + 1

\* C14 witness: a beam on subbands outside the passband was allocated and appended
C14_Witness ==
    /\ call.outcome = "added"
    /\ ~call.valid_passband
    /\ OutOfPassband
    /\ ValidRequest
    /\ Len(beams) = Len(pre.beams) + 1
    /\ Len(bids) > Len(pre.bids)

----------------------------------------------------------------------------
(* C15: subband -> frequency -> subband is the identity on 0..511 *)

\* C15: for every receiver mode in 0..7 and every integer subband s in [0,511],
\* Subband_from_frequency(Frequency_from_subband(s)) = s, where
\* Frequency_from_subband(s) = band.lower + direction*s*width with
\* width = clock/1024.
C15_RoundTrip ==
    (receiver.done /\ receiver.subband >= 0 /\ receiver.subband <= 511) =>
       /\ receiver.back = receiver.subband
       /\ receiver.frequency = Receiver_band(receiver.mode)[1]
             + Receiver_direction(receiver.mode) * receiver.subband * Receiver_width(receiver.mode)
       /\ Receiver_width(receiver.mode) * 1024 = MHz(IF receiver.mode = 6 THEN 160 ELSE 200)

\* C15 witness: subband 511 of mode 6 came back as 511, through 160 + 511*160/1024 MHz
C15_Witness ==
    /\ receiver.done
    /\ receiver.mode = 6
    /\ receiver.subband = 511
    /\ receiver.frequency = MHz(160) + 511 * 8
    /\ receiver.back = 511

----------------------------------------------------------------------------
(* C16: a failed Add_beam leaves the beam list and the beam count alone *)

\* C16: a failed Add_beam, whether it failed for ID exhaustion or for a
\* validation error in Beam or Beamlet construction, leaves the beam list and
\* the beam count nbeams unchanged.
C16_FailedAddKeepsBeams ==
    /\ call.outcome \in {"exhausted", "invalid"} =>
          /\ beams = pre.beams
          /\ nbeams = pre.nbeams
    /\ (Allocating /\ (~ValidRequest \/ Len(call.subbands) > max_beamlets - Len(pre.bids))) =>
          /\ call.outcome \in {"exhausted", "invalid"}
          /\ beams = pre.beams
          /\ nbeams = pre.nbeams

\* C16 witness: with a beam in the list, one add failed for exhaustion or one
\* failed in validation
C16_Witness ==
    /\ Len(pre.beams) >= 1
    /\ beams = pre.beams
    /\ \/ call.outcome = "exhausted" /\ call.err = "RuntimeError"
       \/ call.outcome = "invalid" /\ ~ValidRequest

----------------------------------------------------------------------------
(* C17: exhaustion is recoverable *)

\* C17: exhaustion is recoverable: if an Add_beam call fails for ID exhaustion
\* while k >= 1 IDs are still free, a following Add_beam call with m valid
\* subbands, 1 <= m <= k, succeeds, appends exactly one beam and gets the m
\* smallest free IDs, as if the failed call had never happened.
C17_ExhaustionRecoverable ==
    (/\ Allocating
     /\ call.prev.outcome = "exhausted"
     /\ call.prev.free >= 1
     /\ ValidRequest
     /\ Len(call.subbands) <= call.prev.free) =>
        /\ call.outcome = "added"
        /\ Len(pre.bids) = max_beamlets - call.prev.free
        /\ Len(beams) = Len(pre.beams) + 1
        /\ SubSeq(beams, 1, Len(pre.beams)) = pre.beams
        /\ nbeams = pre.nbeams + 1
        /\ beams[Len(beams)].bids = call.new_bids
        /\ IsAllocation(pre.bids, Len(call.subbands), call.new_bids, bids)

\* C17 witness: a request was refused with one ID left, and the next request,
\* for one subband, got that ID
C17_Witness ==
    /\ call.prev.outcome = "exhausted"
    /\ call.prev.free = 1
    /\ call.outcome = "added"
    /\ Len(call.subbands) = 1
    /\ call.new_bids = <<max_beamlets - 1>>
    /\ Len(bids) = max_beamlets

----------------------------------------------------------------------------
(* C18: two concurrent callers of Add_beam *)

\* The callers whose IDs have been written to the pool
Recorded == { t \in DOMAIN callers : callers[t].pc \in {"Beam", "added", "invalid"} }

\* C18: if two callers run Add_beam concurrently on one Observation, the
\* check-then-allocate sequence of _Bid_manager is mutually exclusive: no two
\* callers are between the reading of the free IDs and the writing of the
\* enlarged pool at once, so no two beams receive a common beamlet ID and no
\* allocation recorded by one caller is lost from the pool.
C18_AllocationExclusive ==
    /\ \A t, u \in DOMAIN callers :
          (t # u /\ callers[t].pc \in {"load", "store"}) => callers[u].pc \notin {"load", "store"}
    /\ \A i, j \in DOMAIN beams :
          i # j => Range(beams[i].bids) \cap Range(beams[j].bids) = {}
    /\ \A t \in Recorded : Range(callers[t].new_bids) \subseteq Range(bids)
    /\ \A t, u \in Recorded :
          t # u => Range(callers[t].new_bids) \cap Range(callers[u].new_bids) = {}

----------------------------------------------------------------------------
(* C19: with no release the pool is a prefix of the ID space *)

\* C19: because there is no release operation, the allocated set is a prefix
\* {0,...,k-1} of the ID space in every reachable state; hence every successful
\* allocation returns the consecutive IDs k..k+n-1, and a beam of two or more
\* beamlets added through Add_beam is merged exactly when its subbands ascend
\* in steps of 1.
C19_PoolIsPrefix ==
    /\ Range(bids) = 0..(Len(bids) - 1)
    /\ (Allocating /\ call.outcome # "exhausted") =>
          /\ call.new_bids = Window(Len(pre.bids), Len(call.subbands))
          /\ bids = pre.bids \o call.new_bids
    /\ \A i \in DOMAIN beams :
          Len(beams[i].subbands) >= 2 =>
             /\ beams[i].contiguous <=> Step1(beams[i].subbands)
             /\ Len(beams[i].beamlets) = 1 <=> Step1(beams[i].subbands)
             /\ Len(beams[i].beamlets) = Len(beams[i].subbands) <=> ~Step1(beams[i].subbands)

\* C19 witness: with k = 3 IDs allocated, a beam on subbands 100,101,103 got the
\* IDs 3,4,5 and is not merged, while the beam before it is merged
C19_Witness ==
    /\ call.outcome = "added"
    /\ Len(pre.bids) = 3
    /\ call.subbands = <<100, 101, 103>>
    /\ call.new_bids = <<3, 4, 5>>
    /\ Len(beams) >= 2
    /\ ~beams[Len(beams)].contiguous
    /\ beams[1].contiguous

----------------------------------------------------------------------------
(* C20: the counters agree with the beam list and the pool *)

\* C20: in every reachable state nbeams equals the length of the beam list and
\* nbeamlets equals the sum of the beamlet counts of all beams, which equals
\* the number of allocated IDs in the pool.
C20_CountersAgree ==
    /\ nbeams = Len(beams)
    /\ nbeamlets = SumLen(beams)
    /\ SumLen(beams) = Len(bids)
    /\ Cardinality(Range(bids)) = Len(bids)

====
